---- MODULE Spec2Model ----
(***************************************************************************)
(* Event-driven failure detector of BFTList                                *)
(* (src/modules/event_driven_fd/module.py, class EventDrivenFDModule).     *)
(*                                                                         *)
(* One node (the instance under study, identity id) is modelled in full:   *)
(* the round driver run() is one thread stepping through its statements,   *)
(* and on_msg_recv() runs as up to NumHandlers concurrent invocations, each*)
(* stepping through its own.  The invocations are interchangeable, so the  *)
(* state holds them as a bag.  The other nodes and the transport (the      *)
(* resolver) are the environment: they call on_msg_recv with arbitrary     *)
(* messages, and what this node hands to resolver.send_to_node is recorded *)
(* step by step.                                                           *)
(*                                                                         *)
(* Steps are as fine as the shared state requires.  Python evaluates       *)
(* self.counters[sender_id] += 1 as a read of the entry followed by a      *)
(* write into the same dict object, and run() replaces the dict object at  *)
(* lines 64-65; a write into a replaced dict is never seen again.          *)
(*                                                                         *)
(* Spec is the open system, where the environment sends what it likes.     *)
(* FaithfulSpec is the closed system, where every peer runs this module or *)
(* is silent and the transport hands over each message once; FairSpec adds *)
(* the scheduling of the threads and of the transport.                     *)
(***************************************************************************)
EXTENDS Integers, Sequences, FiniteSets, Bags, TLC

\* ---- bounds of the model ----
MaxN == 3          \* largest number of nodes n
MaxF == 1          \* largest number of byzantine nodes f
MaxK == 2          \* largest admissibility threshold K
MaxClock == 2      \* largest clock reading (tokens are clock readings)
MaxOver == 0       \* an echo is taken while its sender's counter < K + MaxOver
NumHandlers == 2   \* concurrent invocations of on_msg_recv
MaxId == 0         \* largest identity of the node under study
MaxNClosed == 4    \* largest number of nodes n of the closed system
MaxFlight == 3     \* closed system: run() broadcasts while the exchanges do
                   \* not exceed this number

VARIABLES
    n,          \* self.number_of_nodes
    f,          \* self.number_of_byzantine
    K,          \* K_ADMISSIBILITY_THRESHOLD
    id,         \* self.id
    testing,    \* the argument of run()
    running,    \* resolver.system_running()
    clock,      \* what time.time() returns now
    token,      \* self.token
    counters,   \* self.counters (the dict self.counters refers to now)
    last_correct_processors,  \* self.last_correct_processors
    dpc,        \* position of run()
    correct_ids,\* local variable of run()
    inv,        \* the invocations of on_msg_recv under way: a bag of
                \* [pc, sender, token, val, stale], where val is what the
                \* invocation read from counters[sender_id] and stale says
                \* that the dict it read has been replaced since
    sent,       \* what the step just taken gave to resolver.send_to_node
    taken,      \* the msg the step just taken called on_msg_recv with
    raised,     \* the step just taken ended an invocation with KeyError
    announced,  \* the value self.token has now has been broadcast
    handled,    \* history: the peers an echo of this node's token was taken
                \* from, the token being the value self.token has now
    accepted,   \* history: for each peer, the invocations that passed the
                \* tests of lines 87-88 since the counters were last reset
                \* (kept in the closed system only)
    faithful,   \* the system is closed: every peer runs this module or is
                \* silent, and the transport hands over what was sent, once
    net         \* closed system: the echoes of this node's token under way,
                \* a bag of [sender, token]; an echo stands for the message
                \* sent to the peer, the peer's on_msg_recv (lines 94-97) and
                \* the message it sends back

vars == <<n, f, K, id, testing, running, clock, token, counters,
          last_correct_processors, dpc, correct_ids, inv, sent, taken,
          raised, announced, handled, accepted, faithful, net>>

config == <<n, f, K, id, testing, faithful>>
driverLocals == <<dpc, correct_ids>>
history == <<announced, handled, accepted>>

\* range(self.number_of_nodes) without self.id
Peers == (0..(n - 1)) \ {id}

\* the keys of the counters dict in insertion order (ascending ids)
RECURSIVE PeerSeqFrom(_)
PeerSeqFrom(i) ==
    IF i >= n THEN <<>>
    ELSE IF i = id THEN PeerSeqFrom(i + 1)
    ELSE <<i>> \o PeerSeqFrom(i + 1)

PeerSeq == PeerSeqFrom(0)

\* {n_id: 0 for n_id in range(self.number_of_nodes) if n_id != self.id}
ZeroCountersAll == [p \in 0..(n - 1) |-> 0]

\* lines 33-34 and 64-65: {n_id: 0 for n_id in range(n) if n_id != self.id}
ZeroCounters == [p \in Peers |-> 0]

\* the empty dict
EmptyDict == [k \in {} |-> 0]

NoMsg == [sender |-> 0 - 1, token |-> 0 - 1, owner |-> 0 - 1]

\* send_token's message, addressed to processor_id
Msg(dst, sender, tok, owner) ==
    [dst |-> dst, sender |-> sender, token |-> tok, owner |-> owner]

Range(s) == {s[i] : i \in DOMAIN s}

\* broadcast: send_token(processor_id, self.token, self.id) to every other
\* node, in the order of range(self.number_of_nodes)
RECURSIVE BroadcastFrom(_, _)
BroadcastFrom(i, tok) ==
    IF i >= n THEN <<>>
    ELSE IF i = id THEN BroadcastFrom(i + 1, tok)
    ELSE <<Msg(i, id, tok, id)>> \o BroadcastFrom(i + 1, tok)

Broadcast(tok) == BroadcastFrom(0, tok)

\* ---- pure functions of the module ----

\* get_correct_processors with the threshold of the quorum test
GetCorrectProcessorsAboveK(c) ==
    SelectSeq(PeerSeq, LAMBDA p : c[p] > K) \o <<id>>

\* get_correct_processors with the test of the quorum
GetCorrectProcessorsAtLeastK(c) ==
    SelectSeq(PeerSeq, LAMBDA p : c[p] >= K) \o <<id>>

\* get_correct_processors
GetCorrectProcessors(c) ==
    SelectSeq(PeerSeq, LAMBDA p : c[p] > 0) \o <<id>>

\* correct_processors_have_replied with a quorum of n - f
CorrectProcessorsHaveRepliedNF(c) ==
    Len(SelectSeq(PeerSeq, LAMBDA p : c[p] >= K) \o <<id>>) >= n - f

\* correct_processors_have_replied with the test of line 110, which is
\* commented out
CorrectProcessorsHaveRepliedAny(c) ==
    Len(GetCorrectProcessors(c)) >= n - 2 * f

\* correct_processors_have_replied
CorrectProcessorsHaveReplied(c) ==
    Len(SelectSeq(PeerSeq, LAMBDA p : c[p] >= K) \o <<id>>) >= n - 2 * f

\* get_last_correct_processors giving nothing
GetLastCorrectProcessorsNone(lcp) == <<>>

\* get_last_correct_processors
GetLastCorrectProcessors(lcp) ==
    IF Cardinality(DOMAIN lcp) = 0 THEN <<>>
    ELSE lcp["correct_processors"]

\* get_correct_processors_for_timestamp refusing the result of timestamp
\* itself
GetCorrectProcessorsForTimestampLe(lcp, timestamp) ==
    IF "token" \notin DOMAIN lcp \/ lcp["token"] <= timestamp THEN <<>>
    ELSE GetLastCorrectProcessors(lcp)

\* get_correct_processors_for_timestamp
GetCorrectProcessorsForTimestamp(lcp, timestamp) ==
    IF "token" \notin DOMAIN lcp \/ lcp["token"] < timestamp THEN <<>>
    ELSE GetLastCorrectProcessors(lcp)

\* ---- construction ----

\* lines 25-35.  K is at least one: the unit test of get_correct_processors
\* takes a counter of K - 1 to be positive
Constructed(N) ==
    /\ n \in 2..N
    /\ f \in 0..MaxF
    /\ K \in 1..MaxK
    /\ id \in 0..MaxId
    /\ id < n
    /\ testing \in BOOLEAN
    /\ running = FALSE
    /\ clock = 1
    /\ token = 1
    /\ counters = ZeroCounters
    /\ last_correct_processors = EmptyDict
    /\ dpc = "wait_ready"
    /\ correct_ids = <<>>
    /\ inv = EmptyBag
    /\ sent = <<>>
    /\ taken = NoMsg
    /\ raised = FALSE
    /\ announced = FALSE
    /\ handled = {}
    /\ accepted = ZeroCounters
    /\ net = EmptyBag

\* the open system: the other nodes send this one what they like
Init == Constructed(MaxN) /\ faithful = FALSE

\* the closed system: a deployment with n >= 3f + 1, run() not in testing
\* mode
FaithfulInit ==
    /\ Constructed(MaxNClosed)
    /\ faithful = TRUE
    /\ n >= 3 * f + 1
    /\ ~testing

\* a step that calls neither on_msg_recv nor send_to_node
Quiet ==
    /\ sent' = <<>>
    /\ taken' = NoMsg
    /\ raised' = FALSE

\* ---- environment ----

\* time passes: a later time.time() returns a larger value
Tick ==
    /\ clock < MaxClock
    /\ clock' = clock + 1
    /\ Quiet
    /\ UNCHANGED <<config, running, token, counters, last_correct_processors,
                   driverLocals, inv, history, net>>

\* the resolver reports the system as running (run() reads this at lines
\* 46-47 only)
SystemStart ==
    /\ dpc = "wait_ready"
    /\ ~running
    /\ running' = TRUE
    /\ Quiet
    /\ UNCHANGED <<config, clock, token, counters, last_correct_processors,
                   driverLocals, inv, history, net>>

\* ---- run() ----

\* lines 46-47: block until system is ready
DWaitReady ==
    /\ dpc = "wait_ready"
    /\ testing \/ running
    /\ dpc' = "broadcast"
    /\ Quiet
    /\ UNCHANGED <<config, running, clock, token, counters,
                   last_correct_processors, correct_ids, inv, history, net>>

\* closed system: the peers that answer every message; there are as many
\* as the quorum of line 113 needs besides this node, and the others answer
\* or stay silent
Good == {p \in Peers : Cardinality({q \in Peers : q <= p}) <= n - 2 * f - 1}

\* the echoes the messages s ask for: one for each message that carries a
\* token of this node
Echoes(s) ==
    {[sender |-> s[i].dst, token |-> s[i].token] :
         i \in {j \in DOMAIN s : s[j].owner = id}}

\* closed system: the exchanges of this node's token that are alive, each
\* with its echo under way or in the hands of on_msg_recv
Exchanges == BagCardinality(net) + BagCardinality(inv)

\* lines 130-140, resolver.send_to_node: in the closed system each message s
\* sends to a peer of Good, and to any other peer that answers, puts an echo
\* under way
Post(s) ==
    IF faithful
    THEN \E X \in SUBSET Echoes(s) :
             /\ \A e \in Echoes(s) : e.sender \in Good => e \in X
             /\ net' = net (+) SetToBag(X)
    ELSE net' = net

\* lines 51, 147-149: broadcast token to all other nodes
DBroadcast ==
    /\ dpc = "broadcast"
    /\ faithful => Exchanges + n - 1 <= MaxFlight
    /\ sent' = Broadcast(token)
    /\ Post(Broadcast(token))
    /\ taken' = NoMsg
    /\ raised' = FALSE
    /\ dpc' = "wait_quorum"
    /\ announced' = TRUE
    /\ UNCHANGED <<config, running, clock, token, counters,
                   last_correct_processors, correct_ids, inv, handled,
                   accepted>>

\* lines 53-54: block until at least n-2f processors have sent K tokens back
DWaitQuorum ==
    /\ dpc = "wait_quorum"
    /\ testing \/ CorrectProcessorsHaveReplied(counters)
    /\ dpc' = "snapshot"
    /\ Quiet
    /\ UNCHANGED <<config, running, clock, token, counters,
                   last_correct_processors, correct_ids, inv, history, net>>

\* line 57: correct_ids = self.get_correct_processors()
DSnapshot ==
    /\ dpc = "snapshot"
    /\ correct_ids' = GetCorrectProcessors(counters)
    /\ dpc' = "publish"
    /\ Quiet
    /\ UNCHANGED <<config, running, clock, token, counters,
                   last_correct_processors, inv, history, net>>

\* lines 59-62: self.last_correct_processors = {...}
DPublish ==
    /\ dpc = "publish"
    /\ last_correct_processors' =
           [token |-> token, correct_processors |-> correct_ids]
    /\ correct_ids' = <<>>
    /\ dpc' = "reset"
    /\ Quiet
    /\ UNCHANGED <<config, running, clock, token, counters, inv, history,
                   net>>

\* an invocation that holds the dict object being replaced
Outdated(r) ==
    IF r.pc = "store" THEN [r EXCEPT !.val = 0, !.stale = TRUE] ELSE r

\* lines 64-65: self.counters = {n_id: 0 ...}, a new dict; an invocation
\* that is between its read and its write keeps the old one, which nothing
\* reads any more
DReset ==
    /\ dpc = "reset"
    /\ counters' = ZeroCounters
    /\ inv' = BagOfAll(Outdated, inv)
    /\ dpc' = "mint"
    /\ accepted' = ZeroCounters
    /\ Quiet
    /\ UNCHANGED <<config, running, clock, token, last_correct_processors,
                   correct_ids, announced, handled, net>>

\* lines 67-70: self.token = time.time(); leave the loop when testing
DMint ==
    /\ dpc = "mint"
    /\ token' = clock
    /\ dpc' = IF testing THEN "done" ELSE "broadcast"
    /\ handled' = IF clock = token THEN handled ELSE {}
    /\ announced' = (announced /\ clock = token)
    /\ Quiet
    /\ UNCHANGED <<config, running, clock, counters, last_correct_processors,
                   correct_ids, inv, accepted, net>>

Driver ==
    \/ DWaitReady
    \/ DBroadcast
    \/ DWaitQuorum
    \/ DSnapshot
    \/ DPublish
    \/ DReset
    \/ DMint

\* ---- on_msg_recv() ----

\* a node other than this one, as the owner of a foreign token
Other == (id + 1) % n

\* the values of this node's token the other nodes can send back: an older
\* one, and the current one once it has been broadcast
Echoable == {token - 1} \cup (IF announced THEN {token} ELSE {})

\* the messages other nodes may send to this one: a token of this node from
\* any sender id (this node's own id and the out-of-range id n included), in
\* the closed system an echo that is under way; or a token of another node
\* from its owner (the closed system has this node's token only)
Inbound ==
    IF faithful
    THEN {[sender |-> e.sender, token |-> e.token, owner |-> id] :
              e \in BagToSet(net)}
    ELSE [sender : 0..n, token : Echoable, owner : {id}]
         \cup [sender : {Other}, token : {token - 1, token}, owner : {Other}]

\* the owner test left out
OwnsAny(m) == TRUE

\* line 87: owner_id == self.id
Owns(m) == m.owner = id

\* the token test left out
CurrentAny(m) == TRUE

\* line 88: token == self.token
Current(m) == m.token = token

\* an increment by two
PlusTwo(v) == v + 2

\* line 89: += 1
PlusOne(v) == v + 1

\* the invocation started for msg m, after the tests of lines 87-88
Started(m) ==
    [pc |-> "load", sender |-> m.sender, token |-> m.token, val |-> 0,
     stale |-> FALSE]

\* lines 82-97 up to the increment: on_msg_recv is called with m and makes the
\* owner and token tests.  A token of another node is sent back at once
\* (lines 94-97); a token of this node that is not the current one ends the
\* invocation (line 92); the current one from an id that is no key of the
\* counters dict ends it with KeyError (line 89); the current one from a peer
\* goes on to line 89.
HRecv(m) ==
    /\ BagCardinality(inv) < NumHandlers
    /\ taken' = m
    /\ IF Owns(m)
       THEN /\ sent' = <<>>
            /\ IF Current(m)
               THEN IF m.sender \in DOMAIN counters
                    THEN /\ counters[m.sender] < K + MaxOver
                         /\ inv' = inv (+) SetToBag({Started(m)})
                         /\ raised' = FALSE
                    ELSE /\ raised' = TRUE
                         /\ UNCHANGED inv
               ELSE /\ raised' = FALSE
                    /\ UNCHANGED inv
       ELSE /\ sent' = <<Msg(m.sender, id, m.token, m.owner)>>
            /\ raised' = FALSE
            /\ UNCHANGED inv
    /\ handled' = IF Owns(m) /\ m.sender \in Peers /\ Current(m)
                  THEN handled \cup {m.sender}
                  ELSE handled
    /\ accepted' = IF faithful /\ Owns(m) /\ m.sender \in Peers /\ Current(m)
                   THEN [accepted EXCEPT ![m.sender] = @ + 1]
                   ELSE accepted
    /\ net' = IF faithful /\ Owns(m)
              THEN net (-) SetToBag({[sender |-> m.sender, token |-> m.token]})
              ELSE net
    /\ UNCHANGED <<config, running, clock, token, counters,
                   last_correct_processors, driverLocals, announced>>

\* line 89, the read of self.counters[sender_id]
HLoad(r) ==
    /\ r.pc = "load"
    /\ inv' = (inv (-) SetToBag({r}))
              (+) SetToBag({[r EXCEPT !.pc = "store",
                                      !.val = counters[r.sender]]})
    /\ Quiet
    /\ UNCHANGED <<config, running, clock, token, counters,
                   last_correct_processors, driverLocals, history, net>>

\* line 89, the write of self.counters[sender_id] into the dict that was
\* read, and lines 94-97: send back token to sender
HStore(r) ==
    /\ r.pc = "store"
    /\ counters' = IF r.stale THEN counters
                   ELSE [counters EXCEPT ![r.sender] = PlusOne(r.val)]
    /\ inv' = inv (-) SetToBag({r})
    /\ sent' = <<Msg(r.sender, id, r.token, id)>>
    /\ Post(<<Msg(r.sender, id, r.token, id)>>)
    /\ taken' = NoMsg
    /\ raised' = FALSE
    /\ UNCHANGED <<config, running, clock, token, last_correct_processors,
                   driverLocals, history>>

Handler ==
    \/ \E m \in Inbound : HRecv(m)
    \/ \E r \in BagToSet(inv) : HLoad(r)
    \/ \E r \in BagToSet(inv) : HStore(r)

Next ==
    \/ Tick
    \/ SystemStart
    \/ Driver
    \/ Handler

Spec == Init /\ [][Next]_vars

\* an echo of a peer of Good is handed to on_msg_recv
Delivery ==
    \E m \in Inbound : Owns(m) /\ m.sender \in Good /\ HRecv(m)

\* an invocation of on_msg_recv goes on
Progress ==
    \/ \E r \in BagToSet(inv) : HLoad(r)
    \/ \E r \in BagToSet(inv) : HStore(r)

\* the threads of run() and on_msg_recv are scheduled again and again, and
\* the transport hands over the echoes of the peers of Good
Fairness ==
    /\ WF_vars(Driver)
    /\ WF_vars(Progress)
    /\ WF_vars(Delivery)

FaithfulSpec == FaithfulInit /\ [][Next]_vars

FairSpec == FaithfulSpec /\ Fairness

\* ---- the claims ----

\* the step of invocation r that writes the counter and sends the token back
StoreStep(r) ==
    /\ r \in BagToSet(inv)
    /\ r.pc = "store"
    /\ inv' = inv (-) SetToBag({r})

\* the step of run() that publishes the Round Result
PublishStep == dpc = "publish" /\ dpc' = "reset"

Published == "token" \in DOMAIN last_correct_processors

Stamps == 0..(MaxClock + 1)

\* C1: whenever run(), not in testing mode, publishes a Round Result, the
\* number of peers whose counter is >= K at that moment, plus one for this
\* node, is >= n - 2f.
C1_QuorumWhenPublishing ==
    (dpc = "publish" /\ ~testing)
        => Cardinality({p \in Peers : counters[p] >= K}) + 1 >= n - 2 * f

\* C2: when run() has minted a token and is about to broadcast it, every peer
\* counter is zero.
C2_CountersZeroAtRoundStart ==
    dpc = "broadcast" => \A p \in Peers : counters[p] = 0

\* C3: a counter is written only for an echo whose token equals self.token at
\* the moment of the write.
C3_WriteOnlyForCurrentToken ==
    [][\A r \in BagToSet(inv) :
           (StoreStep(r) /\ ~r.stale) => r.token = token]_vars

\* C4: every Round Result published contains this node's id and every peer
\* whose counter was >= K when line 57 took the snapshot.
C4_ResultHoldsSelfAndAdmissible ==
    [][/\ (dpc = "snapshot" /\ dpc' = "publish")
              => /\ id \in Range(correct_ids')
                 /\ \A p \in Peers :
                        counters[p] >= K => p \in Range(correct_ids')
       /\ (dpc = "publish" /\ dpc' = "publish")
              => correct_ids' = correct_ids
       /\ PublishStep
              => /\ Published'
                 /\ last_correct_processors'["correct_processors"]
                        = correct_ids
                 /\ id \in Range(
                        last_correct_processors'["correct_processors"])]_vars

\* a round that had to wait for a peer has been published with that peer
C4_Witness ==
    /\ dpc = "reset"
    /\ ~testing
    /\ n - 2 * f >= 2
    /\ Published
    /\ Len(last_correct_processors["correct_processors"]) >= 2

\* C5: every peer in the set published with token T sent an echo of this
\* node's token carrying T that on_msg_recv took.
C5_ResultFromEchoesOfItsRound ==
    [][PublishStep
           => \A p \in Range(last_correct_processors'["correct_processors"])
                       \ {id} : p \in handled]_vars

\* C6: the token minted at the end of a round is strictly greater than the
\* token of the round.
C6_TokenStrictlyIncreases ==
    [][(dpc = "mint" /\ dpc' # "mint") => token' > token]_vars

\* C7: get_correct_processors_for_timestamp(ts) is empty when nothing has
\* been published or ts is greater than the published token, and is the
\* published set when ts <= the published token.
C7_ForTimestamp ==
    \A ts \in Stamps :
        GetCorrectProcessorsForTimestamp(last_correct_processors, ts)
            = IF ~Published THEN <<>>
              ELSE IF ts > last_correct_processors["token"] THEN <<>>
              ELSE last_correct_processors["correct_processors"]

\* a result with a peer in it is published and the token has moved on
C7_Witness ==
    /\ Published
    /\ Len(last_correct_processors["correct_processors"]) >= 2
    /\ last_correct_processors["token"] < token

\* C8: while run() is broadcasting or waiting for the quorum after a round,
\* the published token is strictly less than self.token: the query for
\* self.token is empty and the query for the published token gives the
\* published set.
C8_CurrentTokenNotYetAnswered ==
    (dpc \in {"broadcast", "wait_quorum"} /\ Published)
        => /\ last_correct_processors["token"] < token
           /\ GetCorrectProcessorsForTimestamp(last_correct_processors, token)
                  = <<>>
           /\ GetCorrectProcessorsForTimestamp(
                  last_correct_processors, last_correct_processors["token"])
                  = last_correct_processors["correct_processors"]

\* C9: on_msg_recv called with a token of another node leaves the counters,
\* self.token and the Round Result as they are and sends one message, to the
\* sender, with the same token and the same owner_id.
C9_ForeignTokenSentBack ==
    [][(taken' # NoMsg /\ taken'.owner # id)
           => /\ UNCHANGED <<counters, token, last_correct_processors>>
              /\ inv' = inv
              /\ ~raised'
              /\ sent' = <<Msg(taken'.sender, id, taken'.token,
                               taken'.owner)>>]_vars

\* a token of another node has been sent back while a counter was running
C9_Witness ==
    /\ taken # NoMsg
    /\ taken.owner # id
    /\ sent = <<Msg(taken.sender, id, taken.token, taken.owner)>>
    /\ \E p \in Peers : counters[p] > 0

StaleTaken ==
    /\ taken' # NoMsg
    /\ taken'.owner = id
    /\ taken'.token # token

\* C11: on_msg_recv called with a token of this node that is not self.token
\* sends nothing, changes nothing and returns without an exception.
C11_StaleTokenDropped ==
    [][StaleTaken
           => /\ sent' = <<>>
              /\ ~raised'
              /\ inv' = inv
              /\ UNCHANGED <<counters, token, last_correct_processors>>]_vars

\* an older token of this node has just been dropped in a round under way
C11_Witness ==
    /\ taken # NoMsg
    /\ taken.owner = id
    /\ taken.token # token
    /\ taken.sender \in Peers
    /\ sent = <<>>
    /\ ~raised
    /\ announced
    /\ counters[taken.sender] > 0

\* the step that calls on_msg_recv with self.token from an id that is no
\* peer of this node
UnknownTaken ==
    /\ taken' # NoMsg
    /\ taken'.owner = id
    /\ taken'.token = token
    /\ taken'.sender \notin Peers

\* C12: on_msg_recv called with self.token from an id that is no peer leaves
\* the counters as they are and ends without an exception.
C12_UnknownSenderRejected ==
    [][UnknownTaken => (UNCHANGED counters /\ ~raised')]_vars

\* C13: get_last_correct_processors returns [] until run() publishes for the
\* first time; from then on it returns the set of the latest publication:
\* each publication makes it the set just snapshotted and no other step
\* changes what it returns.
C13_LastCorrectProcessors ==
    /\ GetLastCorrectProcessors(last_correct_processors) = <<>>
    /\ [][IF PublishStep
          THEN GetLastCorrectProcessors(last_correct_processors')
                   = correct_ids
          ELSE GetLastCorrectProcessors(last_correct_processors')
                   = GetLastCorrectProcessors(last_correct_processors)]_vars

\* a second round has been published, with a peer in its set
C13_Witness ==
    /\ Published
    /\ last_correct_processors["token"] > 1
    /\ Len(GetLastCorrectProcessors(last_correct_processors)) >= 2

\* C14: the counters dict has exactly the keys 0..n-1 without self.id, and
\* every value is a natural number.
C14_CounterKeys ==
    /\ DOMAIN counters = (0..(n - 1)) \ {id}
    /\ Cardinality(DOMAIN counters) = n - 1
    /\ \A p \in DOMAIN counters : counters[p] \in Nat

\* after a reset, an echo has been counted and a message from an id that is
\* no peer has just ended in KeyError
C14_Witness ==
    /\ raised
    /\ Published
    /\ \E p \in Peers : counters[p] > 0

C17_WaitsWithoutQuorum ==
    [][(/\ dpc = "wait_quorum"
        /\ ~testing
        /\ Cardinality({p \in Peers : counters[p] >= K}) < n - 2 * f - 1)
           => UNCHANGED <<dpc, token, last_correct_processors, announced,
                          correct_ids>>]_vars

\* a later round waits with one peer counted below K
C17_Witness ==
    /\ dpc = "wait_quorum"
    /\ ~testing
    /\ Published
    /\ Cardinality({p \in Peers : counters[p] >= K}) < n - 2 * f - 1
    /\ \E p \in Peers : counters[p] > 0

\* C19: a step other than the reset of lines 64-65 leaves each counter as it
\* is or raises it by one, and leaves the quorum test true if it was true.
C19_CountersMonotone ==
    [][~(dpc = "reset" /\ dpc' = "mint")
           => /\ \A p \in Peers :
                     counters'[p] \in {counters[p], counters[p] + 1}
              /\ CorrectProcessorsHaveReplied(counters)
                     => CorrectProcessorsHaveReplied(counters')]_vars

\* C16: in the closed system, when run() publishes and no invocation of
\* on_msg_recv is under way, each counter equals the number of invocations
\* that passed the tests of lines 87-88 for that peer since the counters
\* were last reset.
C16_NoLostUpdate ==
    (faithful /\ dpc = "publish" /\ inv = EmptyBag)
        => \A p \in Peers : counters[p] = accepted[p]

InFlight(p, tok) ==
    CopiesIn([sender |-> p, token |-> tok], net)
    + BagCardinality(
          [r \in {x \in BagToSet(inv) : x.sender = p /\ x.token = tok}
               |-> CopiesIn(r, inv)])

\* C20: in the closed system there is at most one message under way for
\* each peer and each token of this node.
C20_OneMessagePerExchange ==
    faithful
        => \A p \in Peers : \A tok \in 0..MaxClock : InFlight(p, tok) <= 1

====
